---- MODULE Spec2Model ----
(***************************************************************************)
(* A model of rshm: named shared memory regions (src/src/shm.rs), the      *)
(* futex based cross-process condition variable (src/src/condvar.rs), the  *)
(* single-producer append-only log (src/examples/log.rs) and the keyed     *)
(* dictionary (src/examples/dictionary.rs).                                *)
(*                                                                         *)
(* Each protocol has its own specification over its own variables; the     *)
(* variables of the other protocols keep their initial values.             *)
(*   SpecLog / FairSpecLog : LogProducer::insert, LogConsumer::next and    *)
(*                           Futex::wait / Futex::wake, one action per     *)
(*                           access to the shared region                   *)
(*   SpecDict              : ShmDictionaryOwner::put and                   *)
(*                           ShmDictionaryClient::get, one action per call *)
(*   SpecShm               : ShmDefinition::create / open and the drops of *)
(*                           OwnedShmMap / ShmMap, one action per system   *)
(*                           call                                          *)
(*                                                                         *)
(* Memory is sequentially consistent and statements run in program order.  *)
(***************************************************************************)
EXTENDS Integers, Sequences, FiniteSets, TLC

(***************************************************************************)
(* Bounds of the model.                                                    *)
(***************************************************************************)
\* Number of records the log region is sized for.
LogCapacity == 2
\* Record values range over 1..MaxValue (0 is the content of fresh memory).
MaxValue == 2
\* Waiters on the log's condvar beyond the consumers followed step by step.
MaxCrowd == 22

\* Number of records the dictionary region is sized for.
DictCapacity == 3
\* Region sizes range over 0..MaxSize bytes.
MaxSize == 2
\* Layouts are computed for record sizes 1..MaxRecordSize and region sizes
\* 1..MaxRegionSize, in bytes.
MaxRecordSize == 16
MaxRegionSize == 40
\* The byte stream: regions of up to MaxIoSize bytes, buffers of up to
\* MaxChunk bytes, at most MaxIoCalls calls of write and of read.
MaxIoSize == 300
MaxChunk == 200
MaxIoCalls == 3

(***************************************************************************)
(* Program constants.                                                      *)
(***************************************************************************)
\* size_of::<Condvar>(): one AtomicI32.
SizeOfCondvar == 4
\* size_of::<u64>(): the shared sequence number.
SizeOfU64 == 8
\* size_of::<E>() for the u64 records of the log's doc test.
SizeOfE == 8
\* size_of::<R>() for TestRecord { value: (i32, i32) } of the dictionary test.
SizeOfR == 8
\* size_of::<u8>(), subtracted from the size by ShmDictionaryOwner::new.
SizeOfU8 == 1
\* libc::EINTR and libc::EINVAL, the values the syscall result is compared to.
EINTR == 4
EINVAL == 22
\* i32::MAX, the largest value of the AtomicI32 of the futex.
I32Max == 2147483647
\* The values of the u8 written-bytes header of the byte stream: 0..U8Max.
U8Max == 255
\* size_of::<usize>(), the written-records header of the dictionary.
SizeOfUsize == 8
\* The page of the system: mmap(null, size, ..) maps whole pages of the
\* object, whatever `size` is.
PageSize == 4096

Records == 1..MaxValue
\* The LogConsumer processes: two readers of the one log.
Consumers == {1, 2}
None == "None"

\* AtomicI32::fetch_add(1): the new value, wrapping around on overflow.
FetchAdd1(value) == IF value = I32Max THEN (-I32Max) - 1 ELSE value + 1

IsPrefix(s, t) == Len(s) <= Len(t) /\ SubSeq(t, 1, Len(s)) = s

(***************************************************************************)
(* The log: layout computed by LogProducer::new and LogConsumer::new.      *)
(***************************************************************************)
\* Slots of the header skipped "to ensure alignment", in units of E.
alignment_offset(size_of_e) == (SizeOfCondvar + SizeOfU64) \div size_of_e + 1

\* The region of the log: sized for the header slots and LogCapacity records.
LogMapSize == SizeOfE * (alignment_offset(SizeOfE) + LogCapacity)

\* The byte offset of the shared sequence number: `condvar_ptr.add(1)`.
SequenceNumberOffset == SizeOfCondvar

\* read_volatile through a *const u64 at byte offset of a page-aligned
\* region: undefined behaviour when the offset is no multiple of the
\* alignment of u64; the standard library's check of it, compiled in with
\* debug assertions, aborts the process.
MisalignedReadAborts(offset, checked) == offset % SizeOfU64 /= 0 /\ checked

\* LogProducer::new: available = map_size / size_of::<E>() - alignment_offset.
ProducerAvailable(map_size, size_of_e) ==
    map_size \div size_of_e - alignment_offset(size_of_e)

\* Indices, in units of E from head, of the record slots inside the region.
LogSlots == alignment_offset(SizeOfE)..(LogMapSize \div SizeOfE - 1)

VARIABLES
    sequence_number,  \* the u64 after the Condvar in the shared region
    futex,            \* Futex.value, the AtomicI32 at the head of the region
    slots,            \* the record slots of the shared region, by unit index
    producer,         \* the LogProducer and the position of its insert call
    consumer,         \* each LogConsumer and the position of its next call
    inserted,         \* history: the records written by insert, in order
    received,         \* history: the records each consumer got as Some(..)
    crowd,            \* the number of further threads asleep in FUTEX_WAIT on
                      \* the condvar, each inside a wait() of its own
    debug_assertions  \* whether the build checks the preconditions of unsafe
                      \* calls (the dev profile does, the release one not)

logVars == <<sequence_number, futex, slots, producer, consumer, inserted, received,
             crowd, debug_assertions>>

VARIABLES
    written_records,  \* the usize at the head of the dictionary region
    dict_slots,       \* the record slots of the dictionary region, by unit index
    owner,            \* the ShmDictionaryOwner: end_ptr, available, index
    client,           \* the ShmDictionaryClient: end_ptr, next_read, index
    put_log,          \* history: per key, the value last put (0: never put)
    last_put,         \* history: the put that just returned, its record, its
                      \* result and whether it changed the value of its key
    last_get          \* history: the get that just returned, its result and
                      \* its context

dictVars == <<written_records, dict_slots, owner, client, put_log, last_put, last_get>>

VARIABLES
    dev_shm,          \* /dev/shm: the memory object linked at each path, 0: none
    objects,          \* the bytes of each memory object
    proc,             \* each process: its position in create, open or drop,
                      \* its definition's size, descriptor and mapping
    unlinked,         \* history: the drop of an OwnedShmMap unlinked the path
                      \* and no create has linked it again since
    shared_dropped    \* history: a ShmMap was dropped while the path was linked

shmVars == <<dev_shm, objects, proc, unlinked, shared_dropped>>

VARIABLES
    layout            \* the layout a constructor computed for a region, and the
                      \* bytes of the last record written with it

layoutVars == <<layout>>

VARIABLES
    io_region,        \* the byte stream's region: its size, the u8 written-bytes
                      \* header at its head and the bytes written after it
    io_writer,        \* the ShmWriter: end_ptr and available
    io_reader,        \* the ShmReader: last_read_ptr and read
    io_log            \* history: the bytes write accepted, the bytes read
                      \* returned, what the read that just returned gave
                      \* (-1: the last call was no read) and, when it gave
                      \* 0, how many accepted bytes were still to read

ioVars == <<io_region, io_writer, io_reader, io_log>>

vars == <<logVars, dictVars, shmVars, layoutVars, ioVars>>

\* The log region and its producer and consumers after construction, the
\* condvar's counter apart.
InitLogRegion ==
    /\ sequence_number = 0
    /\ slots = [i \in LogSlots |-> 0]
    /\ producer = [pc |-> "idle", record |-> 0, sequence_number |-> 0,
                   end_ptr |-> alignment_offset(SizeOfE),
                   available |-> ProducerAvailable(LogMapSize, SizeOfE),
                   result |-> "Ok"]
    /\ consumer = [c \in Consumers |->
                   [pc |-> "idle", current_sequence |-> 0, expected_value |-> 0,
                    next_sequence |-> 1, end_ptr |-> alignment_offset(SizeOfE),
                    result |-> None, woken |-> FALSE, reread |-> 0]]
    /\ inserted = <<>>
    /\ received = [c \in Consumers |-> <<>>]
    /\ crowd = 0
    /\ debug_assertions \in BOOLEAN

\* A region is created filled with zeros: the condvar's counter starts at 0.
InitLog == futex = 0 /\ InitLogRegion

\* The log on a condvar whose notify_all was called I32Max - 1 times before.
InitLogNearWrap == futex = I32Max - 1 /\ InitLogRegion

(***************************************************************************)
(* Conditions of the code, one operator per test.                          *)
(***************************************************************************)
\* LogProducer::insert: `if self.available > 0`.
HasSpace(available) == available > 0

\* LogConsumer::next: `if current_sequence < self.next_sequence` (then wait).
MustWait(current_sequence, next_sequence) == current_sequence < next_sequence

\* HasRecord with a read made whatever counter value was observed.
HasRecordAlways(current_sequence, next_sequence) == TRUE

\* LogConsumer::next: `if current_sequence >= self.next_sequence` (then read).
HasRecord(current_sequence, next_sequence) == current_sequence >= next_sequence

\* FutexMustWait with a loop that is left when the counter equals the sample.
FutexMustWaitStrict(expected_value, value) == expected_value > value

\* Futex::wait: `while expected_value >= self.value.load(Acquire)`.
FutexMustWait(expected_value, value) == expected_value >= value

\* KernelBlocks with a kernel that puts the thread to sleep whatever the
\* futex holds.
KernelBlocksAlways(value, expected_value) == TRUE

\* FUTEX_WAIT with val = expected_value: the kernel puts the thread to sleep
\* only while the futex word still holds expected_value.
KernelBlocks(value, expected_value) == value = expected_value

\* Futex::wait: `if result == libc::EINTR`, on the value the syscall returned.
WaitInterrupted(result) == result = EINTR

\* Futex::wake: `if result == libc::EINVAL`, on the value the syscall returned.
WakeInvalid(result) == result = EINVAL

\* Futex::wake: what wake returns for the value the syscall returned,
\* Err(InvalidWakeArguments) or Ok(result).
WakeResult(result) ==
    IF WakeInvalid(result) THEN [ok |-> FALSE, n |-> 0]
    ELSE [ok |-> TRUE, n |-> result]

\* A volatile read of the slot at unit index p (fresh memory reads as 0).
ReadSlotAt(mem, p) == IF p \in DOMAIN mem THEN mem[p] ELSE 0

\* ProducerAdvance with the cursor left in place.
ProducerAdvanceStuck(end_ptr) == end_ptr

\* The slot pointer after a record was written: `self.end_ptr.add(1)`.
ProducerAdvance(end_ptr) == end_ptr + 1

\* ConsumerAdvance with the cursor left in place.
ConsumerAdvanceStuck(end_ptr) == end_ptr

\* The slot pointer after a record was consumed: `self.end_ptr.add(1)`.
ConsumerAdvance(end_ptr) == end_ptr + 1

(***************************************************************************)
(* LogProducer::insert, one action per access to the shared region.        *)
(***************************************************************************)
\* insert with room left: reads the shared sequence number.  The pointer it
\* reads through is head + size_of::<Condvar>(), byte 4 of a page-aligned
\* region, which is not aligned for a u64: a build that checks the
\* preconditions of read_volatile aborts the process there, before anything
\* is written; a build that does not makes the read.
InsertBegin(r) ==
    /\ producer.pc = "idle"
    /\ HasSpace(producer.available)
    /\ producer' = IF MisalignedReadAborts(SequenceNumberOffset, debug_assertions)
                   THEN [producer EXCEPT !.pc = "aborted", !.result = "Aborted"]
                   ELSE [producer EXCEPT !.pc = "write_slot", !.record = r,
                                         !.sequence_number = sequence_number,
                                         !.result = "Pending"]
    /\ UNCHANGED <<debug_assertions, crowd, sequence_number, futex, slots, consumer, inserted,
                  received, dictVars, shmVars, layoutVars, ioVars>>

\* insert without room: Err(NoSpaceLeftInSharedMemory), nothing is written.
InsertNoSpace(r) ==
    /\ producer.pc = "idle"
    /\ ~HasSpace(producer.available)
    /\ producer' = [producer EXCEPT !.result = "NoSpaceLeftInSharedMemory"]
    /\ UNCHANGED <<debug_assertions, crowd, sequence_number, futex, slots, consumer, inserted,
                  received, dictVars, shmVars, layoutVars, ioVars>>

\* self.end_ptr.write(record)
InsertWriteSlot ==
    /\ producer.pc = "write_slot"
    /\ slots' = [slots EXCEPT ![producer.end_ptr] = producer.record]
    /\ inserted' = Append(inserted, producer.record)
    /\ producer' = [producer EXCEPT !.pc = "write_sequence"]
    /\ UNCHANGED <<debug_assertions, crowd, sequence_number, futex, consumer, received, dictVars,
                  shmVars, layoutVars, ioVars>>

\* self.sequence_number.write_volatile(sequence_number + 1), then the local
\* cursor: end_ptr.add(1) and available -= 1.
InsertWriteSequence ==
    /\ producer.pc = "write_sequence"
    /\ sequence_number' = producer.sequence_number + 1
    /\ producer' = [producer EXCEPT !.pc = "fetch_add",
                                    !.end_ptr = ProducerAdvance(@),
                                    !.available = @ - 1]
    /\ UNCHANGED <<debug_assertions, crowd, futex, slots, consumer, inserted, received, dictVars,
                  shmVars, layoutVars, ioVars>>

\* Futex::wake: self.value.fetch_add(1, Release).
WakeFetchAdd ==
    /\ producer.pc = "fetch_add"
    /\ futex' = FetchAdd1(futex)
    /\ producer' = [producer EXCEPT !.pc = "futex_wake"]
    /\ UNCHANGED <<debug_assertions, crowd, sequence_number, slots, consumer, inserted, received,
                  dictVars, shmVars, layoutVars, ioVars>>

\* Futex::wake: the FUTEX_WAKE syscall with count INT_MAX wakes every thread
\* asleep on the futex and returns how many it woke; insert maps the outcome
\* and returns, which ends the life of its locals.
\* woken records that a consumer's wait was ended by this wake.
WakeSyscall ==
    /\ producer.pc = "futex_wake"
    /\ LET asleep == {c \in Consumers : consumer[c].pc = "sleeping"}
           result == Cardinality(asleep) + crowd
       IN  /\ consumer' = [c \in Consumers |->
                           IF c \in asleep
                           THEN [consumer[c] EXCEPT !.pc = "wait_check",
                                                    !.woken = TRUE]
                           ELSE consumer[c]]
           /\ producer' = [producer EXCEPT
                           !.pc = "idle", !.record = 0, !.sequence_number = 0,
                           !.result = IF WakeResult(result).ok
                                      THEN "Ok" ELSE "NotifyAllFailed"]
    /\ crowd' = 0
    /\ UNCHANGED <<debug_assertions, sequence_number, futex, slots, inserted, received,
                  dictVars, shmVars, layoutVars, ioVars>>

\* A further thread calls wait() on the condvar: it samples the counter and
\* goes to sleep in FUTEX_WAIT, where the next wake finds it.
CrowdSleeps ==
    /\ crowd < MaxCrowd
    /\ crowd' = crowd + 1
    /\ UNCHANGED <<debug_assertions, sequence_number, futex, slots, producer, consumer,
                  inserted, received, dictVars, shmVars, layoutVars, ioVars>>

(***************************************************************************)
(* LogConsumer::next with Futex::wait inlined.                             *)
(***************************************************************************)
\* next: `let current_sequence = self.sequence_number.read_volatile()`,
\* through the same misaligned pointer as insert: the process aborts in a
\* build that checks the preconditions of read_volatile.
NextBegin(c) ==
    /\ consumer[c].pc = "idle"
    /\ consumer' = IF MisalignedReadAborts(SequenceNumberOffset, debug_assertions)
                   THEN [consumer EXCEPT ![c].pc = "aborted",
                                         ![c].result = "Aborted"]
                   ELSE [consumer EXCEPT
                         ![c].current_sequence = sequence_number,
                         ![c].woken = FALSE,
                         ![c].reread = 0,
                         ![c].result = "Pending",
                         ![c].pc = IF MustWait(sequence_number,
                                               consumer[c].next_sequence)
                                   THEN "wait_sample" ELSE "check"]
    /\ UNCHANGED <<debug_assertions, crowd, sequence_number, futex, slots, producer, inserted,
                  received, dictVars, shmVars, layoutVars, ioVars>>

\* Futex::wait: `let expected_value = self.value.load(Acquire)`.
WaitSample(c) ==
    /\ consumer[c].pc = "wait_sample"
    /\ consumer' = [consumer EXCEPT ![c].expected_value = futex,
                                    ![c].pc = "wait_check"]
    /\ UNCHANGED <<debug_assertions, crowd, sequence_number, futex, slots, producer, inserted,
                  received, dictVars, shmVars, layoutVars, ioVars>>

\* Futex::wait: the loop test; leaving the loop returns Ok(()).
WaitCheck(c) ==
    /\ consumer[c].pc = "wait_check"
    /\ consumer' = [consumer EXCEPT
                    ![c].pc = IF FutexMustWait(consumer[c].expected_value, futex)
                              THEN "futex_wait" ELSE "check"]
    /\ UNCHANGED <<debug_assertions, crowd, sequence_number, futex, slots, producer, inserted,
                  received, dictVars, shmVars, layoutVars, ioVars>>

\* The FUTEX_WAIT syscall: the thread sleeps when the futex still holds
\* expected_value; otherwise the call returns -1 (errno EAGAIN) at once.
FutexWait(c) ==
    /\ consumer[c].pc = "futex_wait"
    /\ consumer' = [consumer EXCEPT
                    ![c].pc = IF KernelBlocks(futex, consumer[c].expected_value)
                              THEN "sleeping"
                              ELSE IF WaitInterrupted(-1) THEN "interrupted"
                              ELSE "wait_check"]
    /\ UNCHANGED <<debug_assertions, crowd, sequence_number, futex, slots, producer, inserted,
                  received, dictVars, shmVars, layoutVars, ioVars>>

\* A signal reaches a sleeping thread: the syscall returns -1 (errno EINTR).
Interrupt(c) ==
    /\ consumer[c].pc = "sleeping"
    /\ consumer' = [consumer EXCEPT
                    ![c].pc = IF WaitInterrupted(-1) THEN "interrupted"
                              ELSE "wait_check"]
    /\ UNCHANGED <<debug_assertions, crowd, sequence_number, futex, slots, producer, inserted,
                  received, dictVars, shmVars, layoutVars, ioVars>>

\* next: `Err(_) => return None` on a wait that failed; the cursor is left
\* as it was.  No outcome of FUTEX_WAIT makes Futex::wait fail (see
\* WaitInterrupted), so no behaviour of the log takes this step.
NextWaitFailed(c) ==
    /\ consumer[c].pc = "interrupted"
    /\ consumer' = [consumer EXCEPT ![c].pc = "idle",
                                    ![c].current_sequence = 0,
                                    ![c].expected_value = 0,
                                    ![c].result = None]
    /\ UNCHANGED <<debug_assertions, crowd, sequence_number, futex, slots, producer, inserted,
                  received, dictVars, shmVars, layoutVars, ioVars>>

\* next: the test after the wait, on the value read before it; the locals
\* of a call that returns None end with it.
\* reread records what the shared counter holds at this point.
NextCheck(c) ==
    /\ consumer[c].pc = "check"
    /\ consumer' = [consumer EXCEPT
                    ![c].reread = sequence_number,
                    ![c].current_sequence = 0,
                    ![c].expected_value = 0,
                    ![c].pc = IF HasRecord(consumer[c].current_sequence,
                                           consumer[c].next_sequence)
                              THEN "read_slot" ELSE "idle",
                    ![c].result = IF HasRecord(consumer[c].current_sequence,
                                               consumer[c].next_sequence)
                                  THEN "Pending" ELSE None]
    /\ UNCHANGED <<debug_assertions, crowd, sequence_number, futex, slots, producer, inserted,
                  received, dictVars, shmVars, layoutVars, ioVars>>

\* NextReadSlot with a read that empties the slot it read.
NextReadSlotConsuming(c) ==
    /\ consumer[c].pc = "read_slot"
    /\ LET record == ReadSlotAt(slots, consumer[c].end_ptr)
       IN  /\ consumer' = [consumer EXCEPT
                           ![c].next_sequence = @ + 1,
                           ![c].end_ptr = ConsumerAdvance(@),
                           ![c].current_sequence = 0,
                           ![c].expected_value = 0,
                           ![c].reread = 0,
                           ![c].result = record,
                           ![c].pc = "idle"]
           /\ received' = [received EXCEPT ![c] = Append(@, record)]
    /\ slots' = [slots EXCEPT ![consumer[c].end_ptr] = 0]
    /\ UNCHANGED <<debug_assertions, crowd, sequence_number, futex, producer, inserted,
                  dictVars, shmVars, layoutVars, ioVars>>

\* next: `self.end_ptr.read_volatile()`, advance the cursor, Some(record).
NextReadSlot(c) ==
    /\ consumer[c].pc = "read_slot"
    /\ LET record == ReadSlotAt(slots, consumer[c].end_ptr)
       IN  /\ consumer' = [consumer EXCEPT
                           ![c].next_sequence = @ + 1,
                           ![c].end_ptr = ConsumerAdvance(@),
                           ![c].current_sequence = 0,
                           ![c].expected_value = 0,
                           ![c].reread = 0,
                           ![c].result = record,
                           ![c].pc = "idle"]
           /\ received' = [received EXCEPT ![c] = Append(@, record)]
    /\ UNCHANGED <<debug_assertions, crowd, sequence_number, futex, slots, producer, inserted,
                  dictVars, shmVars, layoutVars, ioVars>>

ProducerStep == InsertWriteSlot \/ InsertWriteSequence \/ WakeFetchAdd \/ WakeSyscall

ConsumerStep(c) ==
    NextBegin(c) \/ WaitSample(c) \/ WaitCheck(c) \/ FutexWait(c)
        \/ NextCheck(c) \/ NextReadSlot(c)

NextLogNoSignal ==
    \/ \E r \in Records : InsertBegin(r)
    \/ \E r \in Records : InsertNoSpace(r)
    \/ InsertWriteSlot
    \/ InsertWriteSequence
    \/ WakeFetchAdd
    \/ WakeSyscall
    \/ \E c \in Consumers : NextBegin(c)
    \/ \E c \in Consumers : WaitSample(c)
    \/ \E c \in Consumers : WaitCheck(c)
    \/ \E c \in Consumers : FutexWait(c)
    \/ \E c \in Consumers : NextCheck(c)
    \/ \E c \in Consumers : NextReadSlot(c)

NextLog ==
    \/ \E r \in Records : InsertBegin(r)
    \/ \E r \in Records : InsertNoSpace(r)
    \/ InsertWriteSlot
    \/ InsertWriteSequence
    \/ WakeFetchAdd
    \/ WakeSyscall
    \/ \E c \in Consumers : NextBegin(c)
    \/ \E c \in Consumers : WaitSample(c)
    \/ \E c \in Consumers : WaitCheck(c)
    \/ \E c \in Consumers : FutexWait(c)
    \/ \E c \in Consumers : Interrupt(c)
    \/ \E c \in Consumers : NextCheck(c)
    \/ \E c \in Consumers : NextReadSlot(c)

\* The record a producer that always inserts the same record inserts.
OneRecord == 1

\* The log without signals and with one record value: what the waiters and
\* the notifier do does not depend on the records.
NextWaiters ==
    \/ InsertBegin(OneRecord)
    \/ InsertNoSpace(OneRecord)
    \/ InsertWriteSlot
    \/ InsertWriteSequence
    \/ WakeFetchAdd
    \/ WakeSyscall
    \/ \E c \in Consumers : NextBegin(c)
    \/ \E c \in Consumers : WaitSample(c)
    \/ \E c \in Consumers : WaitCheck(c)
    \/ \E c \in Consumers : FutexWait(c)
    \/ \E c \in Consumers : NextCheck(c)
    \/ \E c \in Consumers : NextReadSlot(c)

\* The consumer followed step by step among a crowd of waiters.
Follower == 1

\* The log with one consumer followed step by step and a crowd of further
\* threads waiting on the condvar.
NextCrowd ==
    \/ \E r \in Records : InsertBegin(r)
    \/ \E r \in Records : InsertNoSpace(r)
    \/ InsertWriteSlot
    \/ InsertWriteSequence
    \/ WakeFetchAdd
    \/ WakeSyscall
    \/ CrowdSleeps
    \/ NextBegin(Follower)
    \/ WaitSample(Follower)
    \/ WaitCheck(Follower)
    \/ FutexWait(Follower)
    \/ NextCheck(Follower)
    \/ NextReadSlot(Follower)

(***************************************************************************)
(* The dictionary (src/examples/dictionary.rs).  The region is an array of *)
(* units of size_of::<R>() bytes: unit 0 holds the written-records header, *)
(* the record slots start at unit 1.  A record is <<key, value>>.          *)
(***************************************************************************)
\* The keys put and got: one more than the region has room for.
Keys == {1, 2, 3, 4}
DictValues == {1, 2}
DictSlots == 1..DictCapacity

\* The region of the dictionary: the header unit and DictCapacity records.
DictMapSize == SizeOfR * (1 + DictCapacity)

\* Record<K>::key of TestRecord: `self.value.0`.
KeyOf(record) == record[1]

\* ShmDictionaryOwner::new: available = (size - size_of::<u8>()) / size_of::<R>().
OwnerAvailable(size, size_of_r) == (size - SizeOfU8) \div size_of_r

\* OwnerOverwriteUnit with the last written slot taken for the key's slot.
OwnerOverwriteUnitLast(end_ptr, records, i) == end_ptr - 1

\* OwnerOverwriteUnit short of one unit.
OwnerOverwriteUnitOffByOne(end_ptr, records, i) == end_ptr - (records - i)

\* put, key present: the slot written is `self.end_ptr.sub(written_records - i + 1)`.
OwnerOverwriteUnit(end_ptr, records, i) == end_ptr - (records - i + 1)

\* get: the slot read is `self.end_ptr.sub(records_count - i)`.
ClientReadUnit(end_ptr, records_count, i) == end_ptr - (records_count - i)

\* ScanMore stopping one record early.
ScanMoreStopsEarly(next_read, records_count) == next_read + 1 < records_count

\* get: the loop test `while self.next_read < records_count`.
ScanMore(next_read, records_count) == next_read < records_count

\* What a read of unit u of the region can return: the record of a slot; the
\* header unit read as a record (the count in the first i32, 0 in the second);
\* outside the mapping the read is undefined: any record, or a fault.
ReadUnit(mem, count, u) ==
    IF u \in DOMAIN mem THEN {[err |-> "Ok", record |-> mem[u]]}
    ELSE IF u = 0 THEN {[err |-> "Ok", record |-> <<count, 0>>]}
    ELSE {[err |-> "SIGSEGV", record |-> <<0, 0>>]}
         \cup {[err |-> "Ok", record |-> r] : r \in ({0} \cup Keys) \X ({0} \cup DictValues)}

\* get: one turn of the scan loop: the record at the client's cursor is read
\* and indexed under its key at the position next_read, the cursor moves on.
ClientScanOne(cl, mem) ==
    LET record == IF cl.end_ptr \in DOMAIN mem THEN mem[cl.end_ptr] ELSE <<0, 0>>
    IN  [cl EXCEPT !.end_ptr = cl.end_ptr + 1,
                   !.next_read = cl.next_read + 1,
                   !.index = [k \in DOMAIN cl.index \cup {KeyOf(record)} |->
                              IF k = KeyOf(record) THEN cl.next_read
                              ELSE cl.index[k]]]

\* The index of a fresh owner or client: an empty HashMap.
EmptyIndex == [k \in {} |-> 0]

\* What a get in progress is remembered for: whether the client was as new
\* when it was called, whether the key was indexed, whether the call before
\* was a put that changed the value of the key, and whether the key had been
\* put at all.
NoCall == [first |-> FALSE, indexed |-> FALSE, rewritten |-> FALSE,
           known |-> FALSE]

\* A client outside any call; pc, key and records_count are the position
\* and the locals of its get.
NewClient == [end_ptr |-> 1, next_read |-> 0, index |-> EmptyIndex,
              pc |-> "idle", key |-> 0, records_count |-> 0, call |-> NoCall]

\* The last call was not a get.  A get records its key, its outcome (err,
\* record), the record last put for the key (expect, <<0, 0>> when the key
\* was never put), whether the client was as new when called (nothing scanned
\* or indexed: first), and whether the key was indexed before the call.
\* rewritten tells that the call before the get was a put that changed the
\* value of the key.
NoGet == [key |-> 0, err |-> None, record |-> <<0, 0>>, expect |-> <<0, 0>>,
          first |-> FALSE, indexed |-> FALSE, rewritten |-> FALSE]

\* The last call was not a put.
NoPut == [result |-> None, key |-> 0, value |-> 0, changed |-> FALSE]

InitDict ==
    /\ written_records = 0
    /\ dict_slots = [u \in DictSlots |-> <<0, 0>>]
    /\ owner = [end_ptr |-> 1,
                available |-> OwnerAvailable(DictMapSize, SizeOfR),
                index |-> EmptyIndex]
    /\ client = NewClient
    /\ put_log = [k \in Keys |-> 0]
    /\ last_put = NoPut
    /\ last_get = NoGet

\* OwnerHasSpace with a put accepted when no capacity is left.
OwnerHasSpaceOffByOne(available) == available >= 0

\* ShmDictionaryOwner::put: `if self.available > 0`.
OwnerHasSpace(available) == available > 0

\* ShmDictionaryOwner::put(record), key not in the owner's index: append.
PutNew(k, v) ==
    /\ OwnerHasSpace(owner.available)
    /\ k \notin DOMAIN owner.index
    /\ dict_slots' = [dict_slots EXCEPT ![owner.end_ptr] = <<k, v>>]
    /\ written_records' = written_records + 1
    /\ owner' = [end_ptr |-> owner.end_ptr + 1,
                 available |-> owner.available - 1,
                 index |-> [j \in DOMAIN owner.index \cup {k} |->
                            IF j = k THEN written_records + 1 ELSE owner.index[j]]]
    /\ put_log' = [put_log EXCEPT ![k] = v]
    /\ last_put' = [result |-> "Ok", key |-> k, value |-> v, changed |-> FALSE]
    /\ last_get' = NoGet
    /\ UNCHANGED <<client, logVars, shmVars, layoutVars, ioVars>>

\* ShmDictionaryOwner::put(record), key in the owner's index: overwrite.
PutExisting(k, v) ==
    /\ OwnerHasSpace(owner.available)
    /\ k \in DOMAIN owner.index
    /\ LET u == OwnerOverwriteUnit(owner.end_ptr, written_records, owner.index[k])
       IN  dict_slots' = IF u \in DOMAIN dict_slots
                         THEN [dict_slots EXCEPT ![u] = <<k, v>>]
                         ELSE dict_slots
    /\ put_log' = [put_log EXCEPT ![k] = v]
    /\ last_put' = [result |-> "Ok", key |-> k, value |-> v,
                    changed |-> v /= put_log[k]]
    /\ last_get' = NoGet
    /\ UNCHANGED <<written_records, owner, client, logVars, shmVars, layoutVars, ioVars>>

\* ShmDictionaryOwner::put(record) without capacity left: Err(ENOMEM).
PutNoMemory(k, v) ==
    /\ ~OwnerHasSpace(owner.available)
    /\ last_put' = [result |-> "ENOMEM", key |-> k, value |-> v,
                    changed |-> FALSE]
    /\ last_get' = NoGet
    /\ UNCHANGED <<written_records, dict_slots, owner, client, put_log,
                  logVars, shmVars, layoutVars, ioVars>>

\* ShmDictionaryClient::new on the open region: a client with an empty index.
ClientNew ==
    /\ client.pc = "idle"
    /\ client' = NewClient
    /\ last_get' = NoGet
    /\ UNCHANGED <<written_records, dict_slots, owner, put_log, last_put,
                  logVars, shmVars, layoutVars, ioVars>>

\* ShmDictionaryClient::get(key) reads the region the owner writes, without
\* a lock, one volatile read at a time; the owner's puts come between them.
\* A read of a slot races with the owner's write of it.  The record is two
\* aligned i32: the read returns each field as it was before or after the
\* write.  An overwrite writes the slot of its own key, so the key field is
\* the same before and after and every mix is the record of before or the
\* record of after: the read placed before or after the put.  The slot an
\* append writes is at or after the count a get has read, and a get reads
\* only slots below that count: the stores of put are made in program
\* order, the slot before the count.
\* get: `let records_count = self.written_records_ptr.read_volatile()`, then
\* `if !self.index.contains_key(key)` and the first test of the loop.
GetBegin(k) ==
    /\ client.pc = "idle"
    /\ client' = [client EXCEPT
                  !.pc = IF k \notin DOMAIN client.index
                            /\ ScanMore(client.next_read, written_records)
                         THEN "scan" ELSE "lookup",
                  !.key = k,
                  !.records_count = written_records,
                  !.call = [first |-> client = NewClient,
                            indexed |-> k \in DOMAIN client.index,
                            rewritten |-> last_put.key = k /\ last_put.changed,
                            known |-> put_log[k] /= 0]]
    /\ last_put' = NoPut
    /\ last_get' = NoGet
    /\ UNCHANGED <<written_records, dict_slots, owner, put_log, logVars,
                  shmVars, layoutVars, ioVars>>

\* get: one turn of the loop, `self.end_ptr.read_volatile()` and the index
\* insertion, then the loop test.
GetScan ==
    /\ client.pc = "scan"
    /\ LET scanned == ClientScanOne(client, dict_slots)
       IN  client' = [scanned EXCEPT
                      !.pc = IF ScanMore(scanned.next_read, client.records_count)
                             THEN "scan" ELSE "lookup"]
    /\ UNCHANGED <<written_records, dict_slots, owner, put_log, last_put,
                  last_get, logVars, shmVars, layoutVars, ioVars>>

\* get: the key is looked up and its slot read,
\* `self.end_ptr.sub(records_count - i).read_volatile()`; Err(ENOKEY) when
\* the key is not indexed.  The locals of the call end with it.
GetRead ==
    /\ client.pc = "lookup"
    /\ LET k == client.key
       IN  \E r \in (IF k \in DOMAIN client.index
                     THEN ReadUnit(dict_slots, written_records,
                                   ClientReadUnit(client.end_ptr,
                                                  client.records_count,
                                                  client.index[k]))
                     ELSE {[err |-> "ENOKEY", record |-> <<0, 0>>]}) :
            last_get' = [key |-> k, err |-> r.err, record |-> r.record,
                         expect |-> IF client.call.known
                                    THEN <<k, put_log[k]>> ELSE <<0, 0>>,
                         first |-> client.call.first,
                         indexed |-> client.call.indexed,
                         rewritten |-> client.call.rewritten]
    /\ client' = [client EXCEPT !.pc = "idle", !.key = 0,
                                !.records_count = 0, !.call = NoCall]
    /\ last_put' = NoPut
    /\ UNCHANGED <<written_records, dict_slots, owner, put_log, logVars,
                  shmVars, layoutVars, ioVars>>

NextDict ==
    \/ \E k \in Keys, v \in DictValues : PutNew(k, v)
    \/ \E k \in Keys, v \in DictValues : PutExisting(k, v)
    \/ \E k \in Keys, v \in DictValues : PutNoMemory(k, v)
    \/ ClientNew
    \/ \E k \in Keys : GetBegin(k)
    \/ GetScan
    \/ GetRead

(***************************************************************************)
(* The region manager (src/src/shm.rs).  The namespace /dev/shm links a    *)
(* path to a memory object; an object lives as long as it is linked or a   *)
(* descriptor or mapping refers to it.  Each process runs create, open and *)
(* drop one system call at a time.                                         *)
(***************************************************************************)
\* The processes that create, open and drop regions.
Procs == {1, 2}
Sizes == 0..MaxSize
\* The bytes written through a mapping: the byte of a fresh page and another.
Bytes == {0, 1}
ShmPath == "test"
Paths == {ShmPath}
\* One memory object per process can be alive, 0 stands for "none".
InodeIds == 1..Cardinality(Procs)

\* CreateFlags without the exclusive flag.
CreateFlagsNotExclusive == {"O_CREAT", "O_RDWR"}

\* create: OFlag::O_CREAT | OFlag::O_EXCL | OFlag::O_RDWR.
CreateFlags == {"O_CREAT", "O_EXCL", "O_RDWR"}

\* open: OFlag::O_RDWR.
OpenFlags == {"O_RDWR"}

\* shm_open(path, flags): the errno of the call, "OK" when it returns a
\* descriptor.
ShmOpenErrno(exists, flags) ==
    IF exists /\ "O_CREAT" \in flags /\ "O_EXCL" \in flags THEN "EEXIST"
    ELSE IF ~exists /\ "O_CREAT" \notin flags THEN "ENOENT"
    ELSE "OK"

map_open_error(errno) ==
    CASE errno = "EACCES" -> "ShmPathAccessDenied"
      [] errno = "EEXIST" -> "ShmPathAlreadyExists"
      [] errno = "EINVAL" -> "ShmPathInvalid"
      [] errno = "EMFILE" -> "ProcessTooManyOpenFD"
      [] errno = "ENAMETOOLONG" -> "ShmPathTooLong"
      [] errno = "ENFILE" -> "SystemTooManyOpenFiles"
      [] errno = "ENOENT" -> "ShmPathDoesNotExist"
      [] OTHER -> "Unknown"

map_truncate_error(errno) ==
    CASE errno = "EINTR" -> "TruncateInterrupted"
      [] errno = "EINVAL" -> "InvalidTruncationSize"
      [] errno = "E2BIG" -> "InvalidTruncationSize"
      [] OTHER -> "Unknown"

map_mmap_error(errno) ==
    CASE errno = "EINVAL" -> "InvalidMMapArguments"
      [] errno = "ENOMEM" -> "OutOfMemory"
      [] errno = "EPERM" -> "MissingPermission"
      [] OTHER -> "Unknown"

map_close_error(errno) ==
    CASE errno = "EINTR" -> "CloseInterrupted"
      [] errno = "EIO" -> "CloseIOError"
      [] OTHER -> "Unknown"

map_unlink_error(errno) ==
    CASE errno = "ENOENT" -> "UnlinkingANonExistentFile"
      [] OTHER -> "Unknown"

\* mmap(null, size, ..): the errnos the call can end with; a length of 0 is
\* always refused with EINVAL, any mapping can be refused for lack of memory.
MmapErrnos(size) == IF size = 0 THEN {"EINVAL"} ELSE {"OK", "ENOMEM"}

\* CleanupRemovesFile with the file left in place.
CleanupKeepsFile(op) == FALSE

\* create_mmap's or_else: `std::fs::remove_file("/dev/shm/{path}")` runs
\* whatever call of create_mmap failed, for create and for open alike.
CleanupRemovesFile(op) == op \in {"create", "open"}

\* MappedObject with a mapping that is a view of another object than fd's.
MappedObjectOther(fd) == (fd % Cardinality(Procs)) + 1

\* mmap(.., MAP_SHARED, fd, 0): the mapping is a view of the object of fd.
MappedObject(fd) == fd

\* DropUnlinks with the unlink made by every drop.
DropUnlinksAlways(owned) == TRUE

\* Drop for OwnedShmMap unlinks the path after munmap; Drop for ShmMap only
\* unmaps.
DropUnlinks(owned) == owned

\* An object is its length and the bytes of its first page that a mapping of
\* at most MaxSize bytes reaches: page[k + 1] is the byte at offset k, inside
\* the object when k < len and past its end otherwise.
NoObject == [len |-> 0, page |-> [i \in 1..MaxSize |-> 0]]

\* The bytes of the object, as a read of the file gives them.
FileBytes(obj) == SubSeq(obj.page, 1, obj.len)

\* The end of the pages that back an object of `len` bytes.
PagesEnd(len) == PageSize * ((len + PageSize - 1) \div PageSize)

\* An access at offset k of a mapping of the object is past the last page
\* of the object: the kernel answers it with SIGBUS.
Faults(obj, k) == k >= PagesEnd(obj.len)

\* ftruncate(fd, size) on an object: with a size at or below the length the
\* page is cleared from the new end on (the same size too; a cut to 0 frees
\* the page), an extension moves the end and leaves the page as it is, bytes
\* written past the old end through a mapping included.
Resize(obj, size) ==
    [len |-> size,
     page |-> [i \in 1..MaxSize |->
                IF size <= obj.len /\ i > size THEN 0 ELSE obj.page[i]]]

\* The objects something still refers to, given the links and the processes.
Live(links, pr) ==
    {links[n] : n \in Paths} \cup {pr[p].fd : p \in Procs} \cup {pr[p].map : p \in Procs}

\* An object nothing refers to is gone.
Reclaim(objs, links, pr) ==
    [i \in InodeIds |-> IF i \in Live(links, pr) THEN objs[i] ELSE NoObject]

FreshInode(links, pr) ==
    CHOOSE i \in InodeIds : i \notin Live(links, pr)
                            /\ \A j \in InodeIds : j \notin Live(links, pr) => i <= j

\* A process outside any call: op and err are its last call and its result.
IdleProc == [pc |-> "idle", op |-> "none", size |-> 0, fd |-> 0, map |-> 0,
             ino |-> 0, owned |-> FALSE, err |-> "Ok"]

InitShm ==
    /\ dev_shm = [n \in Paths |-> 0]
    /\ objects = [i \in InodeIds |-> NoObject]
    /\ proc = [p \in Procs |-> IdleProc]
    /\ unlinked = FALSE
    /\ shared_dropped = FALSE

\* ShmDefinition::create: shm_open(path, O_CREAT | O_EXCL | O_RDWR, ..).
CreateShmOpen(p, size) ==
    /\ proc[p].pc = "idle"
    /\ LET exists == dev_shm[ShmPath] /= 0
           errno == ShmOpenErrno(exists, CreateFlags)
           id == IF exists THEN dev_shm[ShmPath] ELSE FreshInode(dev_shm, proc)
       IN  IF errno = "OK"
           THEN /\ dev_shm' = [dev_shm EXCEPT ![ShmPath] = id]
                /\ objects' = IF exists THEN objects
                              ELSE [objects EXCEPT ![id] = NoObject]
                /\ proc' = [proc EXCEPT ![p] = [IdleProc EXCEPT
                               !.pc = "truncate", !.op = "create",
                               !.size = size, !.fd = id, !.ino = id,
                               !.err = "Pending"]]
                /\ unlinked' = FALSE
           ELSE /\ proc' = [proc EXCEPT ![p] = [IdleProc EXCEPT
                               !.op = "create", !.err = map_open_error(errno)]]
                /\ UNCHANGED <<dev_shm, objects, unlinked>>
    /\ UNCHANGED <<shared_dropped, logVars, dictVars, layoutVars, ioVars>>

\* ShmDefinition::open: shm_open(path, O_RDWR, ..).
OpenShmOpen(p, size) ==
    /\ proc[p].pc = "idle"
    /\ LET exists == dev_shm[ShmPath] /= 0
           errno == ShmOpenErrno(exists, OpenFlags)
           id == IF exists THEN dev_shm[ShmPath] ELSE FreshInode(dev_shm, proc)
       IN  IF errno = "OK"
           THEN /\ dev_shm' = [dev_shm EXCEPT ![ShmPath] = id]
                /\ objects' = IF exists THEN objects
                              ELSE [objects EXCEPT ![id] = NoObject]
                /\ proc' = [proc EXCEPT ![p] = [IdleProc EXCEPT
                               !.pc = "truncate", !.op = "open",
                               !.size = size, !.fd = id, !.ino = id,
                               !.err = "Pending"]]
           ELSE /\ proc' = [proc EXCEPT ![p] = [IdleProc EXCEPT
                               !.op = "open", !.err = map_open_error(errno)]]
                /\ UNCHANGED <<dev_shm, objects>>
    /\ UNCHANGED <<unlinked, shared_dropped, logVars, dictVars, layoutVars, ioVars>>

\* create_mmap: ftruncate(fd, self.size) sets the size of the object.
Truncate(p) ==
    /\ proc[p].pc = "truncate"
    /\ objects' = [objects EXCEPT ![proc[p].fd] = Resize(@, proc[p].size)]
    /\ proc' = [proc EXCEPT ![p].pc = "mmap"]
    /\ UNCHANGED <<dev_shm, unlinked, shared_dropped, logVars, dictVars, layoutVars, ioVars>>

\* create_mmap: ftruncate is interrupted by a signal (EINTR).
TruncateFails(p) ==
    /\ proc[p].pc = "truncate"
    /\ proc' = [proc EXCEPT ![p].pc = "cleanup_close",
                            ![p].err = map_truncate_error("EINTR")]
    /\ UNCHANGED <<dev_shm, objects, unlinked, shared_dropped, logVars, dictVars, layoutVars, ioVars>>

\* create_mmap: mmap(null, self.size, flags, MAP_SHARED, fd, 0).
Mmap(p) ==
    /\ proc[p].pc = "mmap"
    /\ \E errno \in MmapErrnos(proc[p].size) :
        proc' = IF errno = "OK"
                THEN [proc EXCEPT ![p].pc = "close",
                                  ![p].map = MappedObject(proc[p].fd)]
                ELSE [proc EXCEPT ![p].pc = "cleanup_close",
                                  ![p].err = map_mmap_error(errno)]
    /\ UNCHANGED <<dev_shm, objects, unlinked, shared_dropped, logVars, dictVars, layoutVars, ioVars>>

\* create_mmap: close(fd) succeeds; create returns an OwnedShmMap, open a
\* ShmMap.
Close(p) ==
    /\ proc[p].pc = "close"
    /\ proc' = [proc EXCEPT ![p].pc = "mapped", ![p].fd = 0, ![p].err = "Ok",
                            ![p].owned = proc[p].op = "create"]
    /\ UNCHANGED <<dev_shm, objects, unlinked, shared_dropped, logVars, dictVars, layoutVars, ioVars>>

\* create_mmap: close(fd) fails (EIO); the descriptor is released all the
\* same and the mapping made before is never unmapped nor returned.
CloseFails(p) ==
    /\ proc[p].pc = "close"
    /\ proc' = [proc EXCEPT ![p].pc = "cleanup_close", ![p].map = 0,
                            ![p].err = map_close_error("EIO")]
    /\ UNCHANGED <<dev_shm, objects, unlinked, shared_dropped, logVars, dictVars, layoutVars, ioVars>>

\* create_mmap's or_else: `let _close_result = close(fd)`.
CleanupClose(p) ==
    /\ proc[p].pc = "cleanup_close"
    /\ proc' = [proc EXCEPT ![p].pc = "cleanup_remove", ![p].fd = 0]
    /\ objects' = Reclaim(objects, dev_shm, proc')
    /\ UNCHANGED <<dev_shm, unlinked, shared_dropped, logVars, dictVars, layoutVars, ioVars>>

\* create_mmap's or_else: remove_file("/dev/shm/{path}"), then Err(err).
CleanupRemove(p) ==
    /\ proc[p].pc = "cleanup_remove"
    /\ dev_shm' = IF CleanupRemovesFile(proc[p].op)
                  THEN [dev_shm EXCEPT ![ShmPath] = 0]
                  ELSE dev_shm
    /\ proc' = [proc EXCEPT ![p] = [IdleProc EXCEPT !.op = proc[p].op,
                                                    !.err = proc[p].err]]
    /\ objects' = Reclaim(objects, dev_shm', proc')
    /\ UNCHANGED <<unlinked, shared_dropped, logVars, dictVars, layoutVars, ioVars>>

\* head() is the address of a mapping of `size` bytes, whatever the length
\* of the object is now: the byte a process reads at offset k of its mapping,
\* `*head().add(k)`, is the byte of the object's page, past the end of the
\* object too.
MappedByte(objs, pr, p, k) == objs[pr[p].map].page[k + 1]

\* A process killed by SIGBUS: no drop runs, the kernel releases its
\* descriptor and its mapping, the path stays as it is.
Killed == [IdleProc EXCEPT !.pc = "killed", !.err = "SIGBUS"]

\* A process writes byte b at offset k of its mapping.  The write lands in
\* the object's page, visible through every mapping of the object, or kills
\* the process when no page of the object is there.
WriteByte(p, k, b) ==
    /\ proc[p].pc = "mapped"
    /\ k < proc[p].size
    /\ IF Faults(objects[proc[p].map], k)
       THEN /\ proc' = [proc EXCEPT ![p] = [Killed EXCEPT !.op = "write"]]
            /\ objects' = Reclaim(objects, dev_shm, proc')
       ELSE /\ MappedByte(objects, proc, p, k) /= b
            /\ objects' = [objects EXCEPT ![proc[p].map].page[k + 1] = b]
            /\ proc' = proc
    /\ UNCHANGED <<dev_shm, unlinked, shared_dropped, logVars, dictVars, layoutVars, ioVars>>

\* A process reads the byte at offset k of its mapping: the read changes
\* nothing, or kills the process when no page of the object is there.
ReadByte(p, k) ==
    /\ proc[p].pc = "mapped"
    /\ k < proc[p].size
    /\ IF Faults(objects[proc[p].map], k)
       THEN /\ proc' = [proc EXCEPT ![p] = [Killed EXCEPT !.op = "read"]]
            /\ objects' = Reclaim(objects, dev_shm, proc')
       ELSE UNCHANGED <<proc, objects>>
    /\ UNCHANGED <<dev_shm, unlinked, shared_dropped, logVars, dictVars, layoutVars, ioVars>>

\* Drop for OwnedShmMap and for ShmMap: munmap(head, size).  The drop of a
\* ShmMap ends here.
DropMunmap(p) ==
    /\ proc[p].pc = "mapped"
    /\ proc' = [proc EXCEPT ![p] =
                   IF DropUnlinks(proc[p].owned)
                   THEN [proc[p] EXCEPT !.pc = "unlink", !.map = 0]
                   ELSE IdleProc]
    /\ objects' = Reclaim(objects, dev_shm, proc')
    /\ shared_dropped' = (shared_dropped
                            \/ (~proc[p].owned /\ dev_shm[ShmPath] /= 0))
    /\ UNCHANGED <<dev_shm, unlinked, logVars, dictVars, layoutVars, ioVars>>

\* Drop for OwnedShmMap: shm_unlink(path), unwrapped: the drop panics when
\* the path is not there (ENOENT).
DropUnlink(p) ==
    /\ proc[p].pc = "unlink"
    /\ dev_shm' = [dev_shm EXCEPT ![ShmPath] = 0]
    /\ proc' = [proc EXCEPT ![p] =
                   IF dev_shm[ShmPath] /= 0 THEN IdleProc
                   ELSE [IdleProc EXCEPT !.pc = "panicked",
                                         !.err = map_unlink_error("ENOENT")]]
    /\ objects' = Reclaim(objects, dev_shm', proc')
    /\ unlinked' = (unlinked \/ proc[p].owned)
    /\ UNCHANGED <<shared_dropped, logVars, dictVars, layoutVars, ioVars>>

NextShm ==
    \/ \E p \in Procs, size \in Sizes : CreateShmOpen(p, size)
    \/ \E p \in Procs, size \in Sizes : OpenShmOpen(p, size)
    \/ \E p \in Procs : Truncate(p)
    \/ \E p \in Procs : TruncateFails(p)
    \/ \E p \in Procs : Mmap(p)
    \/ \E p \in Procs : Close(p)
    \/ \E p \in Procs : CloseFails(p)
    \/ \E p \in Procs : CleanupClose(p)
    \/ \E p \in Procs : CleanupRemove(p)
    \/ \E p \in Procs, k \in 0..(MaxSize - 1), b \in Bytes : WriteByte(p, k, b)
    \/ \E p \in Procs, k \in 0..(MaxSize - 1) : ReadByte(p, k)
    \/ \E p \in Procs : DropMunmap(p)
    \/ \E p \in Procs : DropUnlink(p)

(***************************************************************************)
(* The layouts computed by LogProducer::new and ShmDictionaryOwner::new    *)
(* for any record size and region size, and the bytes their writes touch.  *)
(* Offsets are in bytes from head.                                         *)
(***************************************************************************)
RecordSizes == 1..MaxRecordSize
RegionSizes == 1..MaxRegionSize

\* The end of the log's header: the Condvar, then the u64 sequence number.
HeaderSize == SizeOfCondvar + SizeOfU64

\* The region before the constructor of its one producer or owner has run.
NoLayout == [kind |-> "none", unit |-> 0, size |-> 0, first |-> 0,
             available |-> 0, wrapped |-> FALSE, panicked |-> FALSE,
             written |-> 0, last_end |-> 0, debug |-> FALSE,
             aborted |-> FALSE]

InitLayout == layout = NoLayout

\* LogProducer::new for records of s bytes on a region of size bytes.  The
\* usize subtraction of available underflows when the region has fewer units
\* than the header skips: a build with overflow checks panics, a build
\* without wraps (available is then its value plus 2^64).  debug tells
\* whether the build has debug assertions.
LogProducerNew(s, size, checks, debug) ==
    /\ layout.kind = "none"
    /\ LET d == ProducerAvailable(size, s)
       IN  layout' = [kind |-> "log", unit |-> s, size |-> size,
                      first |-> s * alignment_offset(s),
                      available |-> d,
                      wrapped |-> d < 0 /\ ~checks,
                      panicked |-> d < 0 /\ checks,
                      written |-> 0, last_end |-> 0, debug |-> debug,
                      aborted |-> FALSE]
    /\ UNCHANGED <<logVars, dictVars, shmVars, ioVars>>

\* LogProducer::insert on the layout: the record goes to end_ptr, which then
\* moves one unit on.  Nothing is followed past a write outside the region.
\* The read of the sequence number that comes first aborts the process in a
\* build with debug assertions (see InsertBegin).
LayoutInsert ==
    /\ layout.kind = "log"
    /\ ~layout.panicked
    /\ ~layout.aborted
    /\ layout.wrapped \/ HasSpace(layout.available)
    /\ layout.last_end <= layout.size
    /\ layout' = IF MisalignedReadAborts(SequenceNumberOffset, layout.debug)
                 THEN [layout EXCEPT !.aborted = TRUE]
                 ELSE [layout EXCEPT
                       !.written = @ + 1,
                       !.available = @ - 1,
                       !.last_end = layout.first
                                    + layout.unit * (layout.written + 1)]
    /\ UNCHANGED <<logVars, dictVars, shmVars, ioVars>>

\* ShmDictionaryOwner::new for records of s bytes on a region of size bytes:
\* end_ptr = (head as *mut R).add(1), available = (size - 1) / size_of::<R>().
DictOwnerNew(s, size) ==
    /\ layout.kind = "none"
    /\ layout' = [kind |-> "dict", unit |-> s, size |-> size,
                  first |-> s,
                  available |-> OwnerAvailable(size, s),
                  wrapped |-> FALSE, panicked |-> FALSE,
                  written |-> 0, last_end |-> 0, debug |-> FALSE,
                  aborted |-> FALSE]
    /\ UNCHANGED <<logVars, dictVars, shmVars, ioVars>>

\* ShmDictionaryOwner::put of a new key on the layout.
LayoutPut ==
    /\ layout.kind = "dict"
    /\ OwnerHasSpace(layout.available)
    /\ layout.last_end <= layout.size
    /\ layout' = [layout EXCEPT
                  !.written = @ + 1,
                  !.available = @ - 1,
                  !.last_end = layout.first + layout.unit * (layout.written + 1)]
    /\ UNCHANGED <<logVars, dictVars, shmVars, ioVars>>

NextLayout ==
    \/ \E s \in RecordSizes, size \in RegionSizes, checks \in BOOLEAN,
          debug \in BOOLEAN :
            LogProducerNew(s, size, checks, debug)
    \/ LayoutInsert
    \/ \E s \in RecordSizes, size \in RegionSizes : DictOwnerNew(s, size)
    \/ LayoutPut

(***************************************************************************)
(* The byte stream (src/examples/io.rs): a u8 written-bytes header at the  *)
(* head of the region, the bytes after it.  Offsets are in bytes from head.*)
(***************************************************************************)
IoSizes == {1, 10, MaxIoSize}
IoLens == {1, 5, MaxChunk}

IoMin(a, b) == IF a <= b THEN a ELSE b

\* `writable_size as u8`: the low 8 bits of a usize.
AsU8(n) == n % (U8Max + 1)

\* The byte the caller of write passes at position i of the whole stream.
StreamByte(i) == (i % 7) + 1

\* A read of the byte at offset o of the region, which was created filled
\* with zeros.
IoByteAt(data, o) == IF o <= Len(data) THEN data[o] ELSE 0

\* No region yet.
NoIoRegion == [status |-> "none", size |-> 0, checks |-> FALSE, header |-> 0,
               data |-> <<>>]

InitIo ==
    /\ io_region = NoIoRegion
    /\ io_writer = [end_ptr |-> 0, available |-> 0, calls |-> 0]
    /\ io_reader = [last_read_ptr |-> 0, read |-> 0, calls |-> 0]
    /\ io_log = [accepted |-> <<>>, delivered |-> <<>>, last_read |-> -1,
                 pending |-> 0]

\* ShmWriter::new and ShmReader::new on a region of size bytes, in a build
\* with or without overflow checks.
IoCreate(size, checks) ==
    /\ io_region.status = "none"
    /\ io_region' = [status |-> "open", size |-> size, checks |-> checks,
                     header |-> 0, data |-> <<>>]
    /\ io_writer' = [end_ptr |-> 1, available |-> size - SizeOfU8, calls |-> 0]
    /\ io_reader' = [last_read_ptr |-> 1, read |-> 0, calls |-> 0]
    /\ UNCHANGED <<io_log, logVars, dictVars, shmVars, layoutVars>>

\* ShmWriter::write(value) with value.len() = len.  The header is a u8:
\* `*self.written_bytes_ptr += writable_size as u8` panics on overflow in a
\* build with overflow checks, after the bytes were copied, and wraps in a
\* build without.
IoWrite(len) ==
    /\ io_region.status = "open"
    /\ io_writer.calls < MaxIoCalls
    /\ LET writable_size == IoMin(io_writer.available, len)
           value == [j \in 1..writable_size |->
                        StreamByte(Len(io_log.accepted) + j)]
           sum == io_region.header + AsU8(writable_size)
       IN  IF writable_size > 0
           THEN IF sum > U8Max /\ io_region.checks
                THEN /\ io_region' = [io_region EXCEPT
                                        !.status = "panicked",
                                        !.data = @ \o value]
                     /\ io_writer' = [io_writer EXCEPT
                                        !.end_ptr = @ + writable_size,
                                        !.calls = @ + 1]
                     /\ UNCHANGED io_log
                ELSE /\ io_region' = [io_region EXCEPT
                                        !.header = AsU8(sum),
                                        !.data = @ \o value]
                     /\ io_writer' = [io_writer EXCEPT
                                        !.end_ptr = @ + writable_size,
                                        !.available = @ - writable_size,
                                        !.calls = @ + 1]
                     /\ io_log' = [io_log EXCEPT
                                     !.accepted = @ \o value,
                                     !.last_read = -1, !.pending = 0]
           ELSE /\ io_writer' = [io_writer EXCEPT !.calls = @ + 1]
                /\ io_log' = [io_log EXCEPT !.last_read = -1, !.pending = 0]
                /\ UNCHANGED io_region
    /\ UNCHANGED <<io_reader, logVars, dictVars, shmVars, layoutVars>>

\* ShmReader::read(out) with out.len() = len.  `header as usize - self.read`
\* underflows when the header is behind what was read: a build with
\* overflow checks panics, a build without gets a huge number and reads len
\* bytes.  A copy that runs past the end of the region is not followed.
IoRead(len) ==
    /\ io_region.status = "open"
    /\ io_reader.calls < MaxIoCalls
    /\ LET diff == io_region.header - io_reader.read
           readable_size == IF diff < 0 THEN len ELSE IoMin(len, diff)
           out == [j \in 1..readable_size |->
                      IoByteAt(io_region.data, io_reader.last_read_ptr + j - 1)]
       IN  IF diff < 0 /\ io_region.checks
           THEN /\ io_region' = [io_region EXCEPT !.status = "panicked"]
                /\ io_reader' = [io_reader EXCEPT !.calls = @ + 1]
                /\ UNCHANGED io_log
           ELSE IF readable_size > 0
           THEN IF io_reader.last_read_ptr + readable_size > io_region.size
                THEN /\ io_region' = [io_region EXCEPT !.status = "outside"]
                     /\ io_reader' = [io_reader EXCEPT !.calls = @ + 1]
                     /\ UNCHANGED io_log
                ELSE /\ io_reader' = [io_reader EXCEPT
                                        !.last_read_ptr = @ + readable_size,
                                        !.read = @ + readable_size,
                                        !.calls = @ + 1]
                     /\ io_log' = [io_log EXCEPT
                                     !.delivered = @ \o out,
                                     !.last_read = readable_size,
                                     !.pending = 0]
                     /\ UNCHANGED io_region
           ELSE /\ io_reader' = [io_reader EXCEPT !.calls = @ + 1]
                /\ io_log' = [io_log EXCEPT
                                !.last_read = 0,
                                !.pending = Len(io_log.accepted)
                                            - Len(io_log.delivered)]
                /\ UNCHANGED io_region
    /\ UNCHANGED <<io_writer, logVars, dictVars, shmVars, layoutVars>>

NextIo ==
    \/ \E size \in IoSizes, checks \in BOOLEAN : IoCreate(size, checks)
    \/ \E len \in IoLens : IoWrite(len)
    \/ \E len \in IoLens : IoRead(len)

(***************************************************************************)
(* Specifications.                                                         *)
(***************************************************************************)
Init == InitLog /\ InitDict /\ InitShm /\ InitLayout /\ InitIo

\* The programs that do not use the log have nothing to do with the build of
\* the log: their specifications start with the log of one build, untouched.
InitNoLog == Init /\ ~debug_assertions

SpecLog == Init /\ [][NextLog]_vars

\* The log without signals, where every process that can take a step
\* eventually takes it: the producer finishes a started insert and every
\* consumer keeps calling next.  Starting an insert is left to the caller.
FairSpecLog ==
    /\ Init
    /\ [][NextLogNoSignal]_vars
    /\ WF_vars(ProducerStep)
    /\ \A c \in Consumers : WF_vars(ConsumerStep(c))

\* NextWaiters where every process that can take a step eventually takes
\* it, as in FairSpecLog.
FairSpecWaiters ==
    /\ Init
    /\ [][NextWaiters]_vars
    /\ WF_vars(ProducerStep)
    /\ \A c \in Consumers : WF_vars(ConsumerStep(c))

SpecCrowd == Init /\ [][NextCrowd]_vars

\* The log on a condvar whose counter is about to pass the largest i32.
InitWrap == InitLogNearWrap /\ InitDict /\ InitShm /\ InitLayout /\ InitIo

SpecWrap == InitWrap /\ [][NextLog]_vars

\* The log before any call, in one build: what the dictionary does has
\* nothing to do with the build of the log.
LogUnused == InitLog /\ ~debug_assertions

\* The value of the record of a refused put in the behaviours of the
\* readers: a refused put changes nothing of the region, whatever its record.
RefusedValue == CHOOSE v \in DictValues : \A w \in DictValues : v <= w

\* One region, used either by the log (one record value) or by the
\* dictionary: the two are separate programs.
NextReaders ==
    \/ InsertBegin(OneRecord) /\ InitDict
    \/ InsertNoSpace(OneRecord) /\ InitDict
    \/ InsertWriteSlot /\ InitDict
    \/ InsertWriteSequence /\ InitDict
    \/ WakeFetchAdd /\ InitDict
    \/ WakeSyscall /\ InitDict
    \/ \E c \in Consumers : NextBegin(c) /\ InitDict
    \/ \E c \in Consumers : WaitSample(c) /\ InitDict
    \/ \E c \in Consumers : WaitCheck(c) /\ InitDict
    \/ \E c \in Consumers : FutexWait(c) /\ InitDict
    \/ \E c \in Consumers : NextCheck(c) /\ InitDict
    \/ \E c \in Consumers : NextReadSlot(c) /\ InitDict
    \/ \E k \in Keys, v \in DictValues : PutNew(k, v) /\ LogUnused
    \/ \E k \in Keys, v \in DictValues : PutExisting(k, v) /\ LogUnused
    \/ \E k \in Keys : PutNoMemory(k, RefusedValue) /\ LogUnused
    \/ ClientNew /\ LogUnused
    \/ \E k \in Keys : GetBegin(k) /\ LogUnused
    \/ GetScan /\ LogUnused
    \/ GetRead /\ LogUnused

SpecReaders == Init /\ [][NextReaders]_vars

SpecIo == InitNoLog /\ [][NextIo]_vars

SpecLayout == InitNoLog /\ [][NextLayout]_vars

SpecDict == InitNoLog /\ [][NextDict]_vars

SpecShm == InitNoLog /\ [][NextShm]_vars

(***************************************************************************)
(* Claims about the log.                                                   *)
(***************************************************************************)
\* C1: once the producer has stopped inserting, every consumer that keeps
\* calling next() eventually has received exactly the inserted records, in
\* insertion order (checked under FairSpecLog).
C1_EveryRecordIsDelivered == <>[](\A c \in Consumers : received[c] = inserted)

\* C2: the records one consumer received as Some(..) are, in every reachable
\* state, a prefix of the records the producer inserted: nothing is skipped,
\* duplicated or reordered.
C2_ReceivedIsPrefixOfInserted ==
    \A c \in Consumers : IsPrefix(received[c], inserted)

\* A consumer has received the full log, made of two different records, while
\* another consumer is still behind.
C2_Witness ==
    /\ Len(inserted) >= 2
    /\ inserted[1] /= inserted[2]
    /\ \E c, d \in Consumers :
        /\ received[c] = inserted
        /\ Len(received[d]) < Len(inserted)

\* C3: a next() call that found the counter behind, slept on the condvar and
\* was woken by notify_all when the shared counter had reached its expected
\* sequence returns Some(record), not None.
C3_WokenNextReturnsTheRecord ==
    \A c \in Consumers :
        (/\ consumer[c].pc = "idle"
         /\ consumer[c].woken
         /\ consumer[c].result = None)
        => consumer[c].reread < consumer[c].next_sequence

(***************************************************************************)
(* Claims about the dictionary.                                            *)
(***************************************************************************)
\* C4: whatever puts and gets came before, get(K) for a key K the owner has
\* put returns the record most recently put for K.
C4_GetReturnsTheLatestRecord ==
    last_get.expect /= <<0, 0>>
        => (last_get.err = "Ok" /\ last_get.record = last_get.expect)

\* C5: last write wins: the first get(K) of a new client returns the record
\* last put for K, also when K was put before with another value and other
\* keys were put around it.
C5_FirstGetReturnsTheLastWrite ==
    (last_get.first /\ last_get.expect /= <<0, 0>>)
        => (last_get.err = "Ok" /\ last_get.record = last_get.expect)

\* The first get of a new client, made right after a put changed the value of
\* its key, returned the new value, in a dictionary holding other keys too.
C5_Witness ==
    /\ last_get.first
    /\ last_get.key \in Keys
    /\ last_get.rewritten
    /\ written_records >= 2
    /\ last_get.err = "Ok"
    /\ last_get.record = <<last_get.key, put_log[last_get.key]>>

\* C6: freshness: a get of a key that the client has not indexed yet and that
\* the owner has put returns the record put for it, whatever gets the client
\* made before.
C6_UnindexedKeyIsFound ==
    (~last_get.indexed /\ last_get.expect /= <<0, 0>>)
        => (last_get.err = "Ok" /\ last_get.record = last_get.expect)

\* A client that had already scanned records got, by a later get, the record
\* of a key it had not indexed.
C6_Witness ==
    /\ last_get.key \in Keys
    /\ ~last_get.first
    /\ ~last_get.indexed
    /\ last_get.err = "Ok"
    /\ last_get.expect /= <<0, 0>>
    /\ last_get.record = last_get.expect

(***************************************************************************)
(* Claims about the region manager.                                        *)
(***************************************************************************)
\* The process holding the OwnedShmMap of object id: its create returned and
\* its drop has not finished.
Owners(id) ==
    {p \in Procs : proc[p].owned /\ proc[p].ino = id
                   /\ proc[p].pc \in {"mapped", "unlink"}}

\* C7: a step that removes the link of a resource whose create succeeded is
\* the shm_unlink of the drop of the OwnedShmMap that create returned: no
\* open, failing or not, and no drop of a ShmMap removes it.
C7_OnlyTheOwnersDropRemoves ==
    [][(/\ dev_shm[ShmPath] /= 0
        /\ dev_shm'[ShmPath] /= dev_shm[ShmPath]
        /\ Owners(dev_shm[ShmPath]) /= {})
       => \E p \in Owners(dev_shm[ShmPath]) :
            proc[p].pc = "unlink" /\ proc'[p].pc = "idle"]_vars

\* C8: at most one OwnedShmMap is alive for the path, and no drop of an
\* OwnedShmMap finds the path missing (which makes the drop panic).
C8_AtMostOneOwnerAlive ==
    /\ Cardinality({p \in Procs : proc[p].pc = "mapped" /\ proc[p].owned}) <= 1
    /\ \A p \in Procs : proc[p].pc /= "panicked"

\* C9: single ownership: create on a path that is linked fails with
\* ShmPathAlreadyExists, open on a path that is not linked fails with
\* ShmPathDoesNotExist, and neither changes the namespace or any object.
C9_SingleOwnership ==
    [][\A p \in Procs :
        (proc[p].pc = "idle" /\ proc'[p] /= proc[p])
        => /\ (proc'[p].op = "create" /\ dev_shm[ShmPath] /= 0)
                => /\ proc'[p].pc = "idle"
                   /\ proc'[p].err = "ShmPathAlreadyExists"
                   /\ dev_shm' = dev_shm /\ objects' = objects
           /\ (proc'[p].op = "open" /\ dev_shm[ShmPath] = 0)
                => /\ proc'[p].pc = "idle"
                   /\ proc'[p].err = "ShmPathDoesNotExist"
                   /\ dev_shm' = dev_shm /\ objects' = objects]_vars

\* A create was refused with ShmPathAlreadyExists while another process holds
\* the OwnedShmMap of the path, whose object has a byte written in it.
C9_Witness ==
    \E p, q \in Procs :
        /\ proc[p].pc = "idle" /\ proc[p].op = "create"
        /\ proc[p].err = "ShmPathAlreadyExists"
        /\ proc[q].pc = "mapped" /\ proc[q].owned
        /\ dev_shm[ShmPath] = proc[q].map
        /\ \E i \in 1..objects[proc[q].map].len :
                objects[proc[q].map].page[i] /= 0

\* C10: when the drop of an OwnedShmMap ends, its view is unmapped and the
\* path is not linked, and an open made while the path stays unlinked fails
\* with ShmPathDoesNotExist; the drop of a ShmMap unmaps its view and leaves
\* the link of the path and the object linked there as they were.
C10_DropEffects ==
    [][\A p \in Procs :
        /\ (/\ proc[p].owned /\ proc[p].pc \in {"mapped", "unlink"}
            /\ proc'[p].pc \in {"idle", "panicked"})
           => (proc'[p].map = 0 /\ dev_shm'[ShmPath] = 0)
        /\ (/\ unlinked /\ proc[p].pc = "idle" /\ proc'[p] /= proc[p]
            /\ proc'[p].op = "open")
           => (proc'[p].pc = "idle" /\ proc'[p].err = "ShmPathDoesNotExist")
        /\ (/\ ~proc[p].owned /\ proc[p].pc \in {"mapped", "unlink"}
            /\ proc'[p] /= proc[p])
           => /\ proc'[p].map = 0
              /\ dev_shm' = dev_shm
              /\ dev_shm[ShmPath] /= 0
                    => objects'[dev_shm[ShmPath]] = objects[dev_shm[ShmPath]]]_vars

\* A ShmMap was dropped while the path was linked, the owner's drop then
\* unlinked the path, and a later open failed with ShmPathDoesNotExist.
C10_Witness ==
    /\ unlinked
    /\ shared_dropped
    /\ dev_shm[ShmPath] = 0
    /\ \E p \in Procs :
        /\ proc[p].pc = "idle" /\ proc[p].op = "open"
        /\ proc[p].err = "ShmPathDoesNotExist"

\* C11: when a create that had made the named resource returns an error (from
\* ftruncate, mmap or close), the path is not linked and the descriptor is
\* closed, so a later open finds nothing and a later create starts afresh.
C11_FailedCreateLeavesNothing ==
    [][\A p \in Procs :
        (/\ proc[p].op = "create"
         /\ proc[p].pc = "cleanup_remove"
         /\ proc'[p].pc = "idle")
        => /\ dev_shm'[ShmPath] = 0
           /\ proc'[p].fd = 0
           /\ proc'[p].err \in {"TruncateInterrupted", "InvalidMMapArguments",
                                "OutOfMemory", "CloseIOError"}
           /\ ShmOpenErrno(dev_shm'[ShmPath] /= 0, OpenFlags) = "ENOENT"
           /\ ShmOpenErrno(dev_shm'[ShmPath] /= 0, CreateFlags) = "OK"]_vars

\* A create of size 0 has returned InvalidMMapArguments and the path is not
\* linked.
C11_Witness ==
    \E p \in Procs :
        /\ proc[p].pc = "idle" /\ proc[p].op = "create"
        /\ proc[p].err = "InvalidMMapArguments"
        /\ dev_shm[ShmPath] = 0

\* C12: while a process holds the OwnedShmMap of the path and the name still
\* denotes the object its create made, the owner's mapping is a view of that
\* object, an open of the path gets a descriptor of that object and maps it,
\* and once both hold a mapping of the same size every offset below the size
\* is backed by the object and, after any write through either mapping,
\* reads the same byte through both.
C12_CreateOpenAlias ==
    [][\A p, q \in Procs :
        (/\ p /= q
         /\ proc[p].pc = "mapped" /\ proc[p].owned /\ proc'[p] = proc[p]
         /\ dev_shm[ShmPath] = proc[p].ino)
        => /\ proc[p].map = proc[p].ino
           /\ (/\ proc[q].pc = "idle" /\ proc'[q] /= proc[q]
                /\ proc'[q].op = "open")
               => (proc'[q].pc = "truncate" /\ proc'[q].fd = proc[p].ino)
           /\ (/\ proc[q].op = "open" /\ proc[q].pc = "mmap"
                /\ proc[q].ino = proc[p].ino /\ proc'[q].pc = "close")
               => proc'[q].map = proc[p].ino
           /\ (/\ proc[q].pc = "mapped" /\ ~proc[q].owned /\ proc'[q] = proc[q]
                /\ proc[q].ino = proc[p].ino /\ proc[q].size = proc[p].size)
               => \A k \in 0..(proc[p].size - 1) :
                    /\ k < objects'[proc[p].ino].len
                    /\ k < objects'[proc[q].map].len
                    /\ MappedByte(objects', proc', q, k)
                            = MappedByte(objects', proc', p, k)
                    /\ MappedByte(objects', proc', q, k)
                            = FileBytes(objects'[proc[p].ino])[k + 1]]_vars

\* The owner and an opener hold mappings of the same size of one object in
\* which a byte was written.
C12_Witness ==
    \E p, q \in Procs :
        /\ proc[p].pc = "mapped" /\ proc[p].owned
        /\ proc[q].pc = "mapped" /\ ~proc[q].owned
        /\ proc[q].ino = proc[p].ino /\ proc[q].size = proc[p].size
        /\ dev_shm[ShmPath] = proc[p].ino
        /\ \E k \in 0..(proc[p].size - 1) :
            /\ MappedByte(objects, proc, p, k) /= 0
            /\ MappedByte(objects, proc, q, k) = MappedByte(objects, proc, p, k)

\* A consumer inside Futex::wait, after the sample of the counter.
InWait(c) == consumer[c].pc \in {"wait_check", "futex_wait", "sleeping"}

\* C13: no missed wake-up: a thread that sampled the counter in wait and
\* after whose sample the counter was advanced by a notify_all eventually
\* returns Ok from wait, whatever the interleaving of its steps with the
\* notifier's, and so does every other waiter (checked under FairSpecWaiters).
C13_NoMissedWakeUp ==
    \A c \in Consumers :
        (InWait(c) /\ futex > consumer[c].expected_value)
            ~> (consumer[c].pc = "check")

\* Every consumer has returned from a wait that the kernel wake ended.
C13_Witness ==
    \A c \in Consumers :
        /\ consumer[c].pc = "check"
        /\ consumer[c].woken
        /\ futex > consumer[c].expected_value

\* C14: wait returns Ok only from its loop test and only when the counter is
\* strictly greater than the value sampled at the call; a waiter whose loop
\* test finds the counter not advanced, a waiter woken by the kernel
\* included, goes back to the kernel wait instead of returning.
C14_OkOnlyAfterAdvance ==
    [][\A c \in Consumers :
        /\ (InWait(c) /\ consumer'[c].pc = "check")
            => /\ consumer[c].pc = "wait_check"
               /\ futex > consumer[c].expected_value
        /\ (/\ consumer[c].pc = "wait_check"
            /\ futex <= consumer[c].expected_value
            /\ consumer'[c] /= consumer[c])
            => consumer'[c].pc = "futex_wait"
        /\ (/\ consumer[c].pc = "sleeping" /\ consumer'[c] /= consumer[c]
            /\ producer' /= producer)
            => consumer'[c].pc = "wait_check"]_vars

\* One wake-up ended the sleep of two waiters: one had sampled the counter
\* before the increment and has returned, the other had sampled it after
\* and is asleep again.
C14_Witness ==
    \E c, d \in Consumers :
        /\ consumer[c].pc = "check" /\ consumer[c].woken
        /\ futex > consumer[c].expected_value
        /\ consumer[d].pc = "sleeping" /\ consumer[d].woken
        /\ futex = consumer[d].expected_value

\* C15: a thread asleep in the kernel wait whose sleep is ended by a signal
\* (the syscall returns -1 with errno EINTR) leaves wait with
\* Err(WaitInterrupted) instead of going back to waiting.
C15_InterruptedWaitFails ==
    [][\A c \in Consumers :
        (/\ consumer[c].pc = "sleeping"
         /\ consumer'[c] /= consumer[c]
         /\ producer' = producer)
        => consumer'[c].pc = "interrupted"]_vars

\* The threads asleep in FUTEX_WAIT on the condvar.
Sleepers == Cardinality({c \in Consumers : consumer[c].pc = "sleeping"}) + crowd

\* C16: notify_all advances the counter by exactly one, and when the kernel
\* wake succeeded and woke k waiters it returns Ok(k), for every k from 0 up
\* (checked under SpecCrowd, where up to MaxCrowd + 1 threads are asleep).
C16_NotifyAllReportsTheWake ==
    [][/\ (producer.pc = "fetch_add" /\ producer'.pc = "futex_wake")
            => futex' = futex + 1
       /\ (producer.pc = "futex_wake" /\ producer'.pc = "idle")
            => /\ WakeResult(Sleepers) = [ok |-> TRUE, n |-> Sleepers]
               /\ producer'.result = "Ok"
               /\ futex' = futex]_vars

\* C17: in a log sized for LogCapacity records, a call of insert made when
\* fewer records were inserted is accepted, and when it returns its record
\* and every earlier one are in their slots and the sequence counter counts
\* them; a call made after LogCapacity records fails with
\* NoSpaceLeftInSharedMemory and leaves the slots, the sequence counter, the
\* condvar counter and the producer's cursor and capacity unchanged.
C17_CapacityIsExact ==
    [][/\ (/\ producer.pc = "idle" /\ producer' /= producer
           /\ Len(inserted) < LogCapacity)
            => producer'.pc = "write_slot"
       /\ (producer.pc = "futex_wake" /\ producer'.pc = "idle")
            => /\ Len(inserted') <= LogCapacity
               /\ sequence_number' = Len(inserted')
               /\ \A i \in 1..Len(inserted') :
                    slots'[alignment_offset(SizeOfE) + i - 1] = inserted'[i]
       /\ (/\ producer.pc = "idle" /\ producer' /= producer
           /\ Len(inserted) >= LogCapacity)
            => /\ producer'.pc = "idle"
               /\ producer'.result = "NoSpaceLeftInSharedMemory"
               /\ producer'.end_ptr = producer.end_ptr
               /\ producer'.available = producer.available
               /\ UNCHANGED <<slots, sequence_number, futex, inserted>>]_vars

\* An insert was refused after LogCapacity inserts were accepted.
C17_Witness ==
    /\ producer.pc = "idle"
    /\ producer.result = "NoSpaceLeftInSharedMemory"
    /\ Len(inserted) = LogCapacity
    /\ sequence_number = LogCapacity
    /\ ProducerAvailable(LogMapSize, SizeOfE) = LogCapacity

\* C18: when insert returns NotifyAllFailed its record is in its slot, the
\* sequence counter counts it, the producer's cursor is past it and one unit
\* of capacity is consumed for it; a consumer that calls next afterwards
\* gets the records in insertion order, that one included (checked under
\* SpecCrowd, where enough threads wait for the notification to fail).
C18_FailedNotifyKeepsTheRecord ==
    /\ (producer.pc = "idle" /\ producer.result = "NotifyAllFailed")
        => /\ inserted /= <<>>
           /\ slots[alignment_offset(SizeOfE) + Len(inserted) - 1]
                = inserted[Len(inserted)]
           /\ sequence_number = Len(inserted)
           /\ producer.end_ptr = alignment_offset(SizeOfE) + Len(inserted)
           /\ producer.available = LogCapacity - Len(inserted)
    /\ \A c \in Consumers : IsPrefix(received[c], inserted)

\* An insert returned NotifyAllFailed and the consumer has since received
\* its record, the last of the log.
C18_Witness ==
    /\ producer.pc = "idle" /\ producer.result = "NotifyAllFailed"
    /\ inserted /= <<>>
    /\ received[Follower] = inserted
    /\ consumer[Follower].pc = "idle"

\* The slots written so far that hold a record of key k.
SlotsOfKey(mem, count, k) == {u \in 1..count : KeyOf(mem[u]) = k}

\* C19, as the claim states it: every put of a key that already has a slot,
\* whatever capacity is left, writes the new record in that slot and changes
\* no other slot, nor the written-count, the remaining capacity, the append
\* position or the owner's index; after any sequence of puts every key put
\* has exactly one slot and the written-count is the number of distinct keys
\* put.
C19_EveryPutOfAKeyWithASlotOverwrites ==
    [][/\ \A k \in Keys :
            (/\ last_put'.result /= None /\ last_put'.key = k
             /\ last_put' /= last_put \/ put_log' /= put_log
             /\ SlotsOfKey(dict_slots, written_records, k) /= {})
            => /\ \A u \in DictSlots :
                    dict_slots'[u] =
                        IF u \in SlotsOfKey(dict_slots, written_records, k)
                        THEN <<k, last_put'.value>> ELSE dict_slots[u]
               /\ UNCHANGED <<written_records, owner>>
       /\ (/\ last_put'.result /= None
           /\ last_put' /= last_put \/ put_log' /= put_log)
            => /\ \A k \in Keys :
                    Cardinality(SlotsOfKey(dict_slots', written_records', k))
                        = IF put_log'[k] = 0 THEN 0 ELSE 1
               /\ written_records'
                    = Cardinality({k \in Keys : put_log'[k] /= 0})]_vars

\* C19, amended: a put made while capacity is left (an accepted put) for a
\* key that already has a slot writes the new record in that slot and
\* changes no other slot, nor the written-count, the remaining capacity, the
\* append position or the owner's index; after any sequence of puts every
\* key put has exactly one slot and the written-count is the number of
\* distinct keys put.
C19_OverwriteInPlace ==
    [][/\ \A k \in Keys :
            (/\ last_put'.result = "Ok" /\ last_put'.key = k
             /\ last_put' /= last_put \/ put_log' /= put_log
             /\ SlotsOfKey(dict_slots, written_records, k) /= {})
            => /\ \A u \in DictSlots :
                    dict_slots'[u] =
                        IF u \in SlotsOfKey(dict_slots, written_records, k)
                        THEN <<k, last_put'.value>> ELSE dict_slots[u]
               /\ put_log'[k] = last_put'.value
               /\ UNCHANGED <<written_records, owner>>
       /\ (/\ last_put'.result /= None
           /\ last_put' /= last_put \/ put_log' /= put_log)
            => /\ \A k \in Keys :
                    Cardinality(SlotsOfKey(dict_slots', written_records', k))
                        = IF put_log'[k] = 0 THEN 0 ELSE 1
               /\ written_records'
                    = Cardinality({k \in Keys : put_log'[k] /= 0})]_vars

\* A put has just replaced the record of a key whose slot is not the last
\* one written.
C19_Witness ==
    /\ last_put.result = "Ok" /\ last_put.changed
    /\ \E u \in 1..(written_records - 1) :
        dict_slots[u] = <<last_put.key, put_log[last_put.key]>>

\* C20: with the owner's capacity exhausted every put, of a new key or of a
\* key that has a slot, returns ENOMEM and changes no slot, nor the
\* written-count, the remaining capacity, the append position or the index.
C20_ExhaustedPutFails ==
    [][(/\ owner.available = 0
        /\ last_put' /= last_put
        /\ last_put'.result /= None)
       => /\ last_put'.result = "ENOMEM"
          /\ UNCHANGED <<dict_slots, written_records, owner, put_log>>]_vars

\* A put of a key that has a slot was refused for lack of capacity.
C20_Witness ==
    /\ owner.available = 0
    /\ last_put.result = "ENOMEM"
    /\ last_put.key \in DOMAIN owner.index
    /\ SlotsOfKey(dict_slots, written_records, last_put.key) /= {}

\* C21: a next() called when the shared counter is at or past the sequence
\* the consumer expects goes to its test without touching the condvar and
\* returns the record of that sequence, so a consumer behind by k records
\* gets them in order from k calls; a next() called when the counter is
\* behind enters the wait and leaves it only once the condvar counter has
\* passed the value sampled in the call.
C21_NoWaitWhenRecordIsThere ==
    [][\A c \in Consumers :
        /\ consumer[c].next_sequence = Len(received[c]) + 1
        /\ (/\ consumer[c].pc = "idle" /\ consumer'[c].pc /= "idle"
            /\ sequence_number >= consumer[c].next_sequence)
            => consumer'[c].pc = "check" /\ ~consumer'[c].woken
        /\ (/\ consumer[c].pc = "check" /\ consumer'[c] /= consumer[c]
            /\ consumer[c].current_sequence >= consumer[c].next_sequence)
            => consumer'[c].pc = "read_slot"
        /\ (consumer[c].pc = "read_slot" /\ consumer'[c] /= consumer[c])
            => /\ consumer'[c].pc = "idle"
               /\ consumer[c].next_sequence <= Len(inserted)
               /\ consumer'[c].result = inserted[consumer[c].next_sequence]
               /\ received'[c] = Append(received[c], consumer'[c].result)
        /\ (/\ consumer[c].pc = "idle" /\ consumer'[c].pc /= "idle"
            /\ sequence_number < consumer[c].next_sequence)
            => consumer'[c].pc = "wait_sample"
        /\ (/\ consumer[c].pc \in {"wait_sample", "wait_check", "futex_wait",
                                   "sleeping"}
            /\ consumer'[c].pc \in {"check", "read_slot", "idle"})
            => futex > consumer[c].expected_value]_vars

\* The log is full and a further insert was refused; one consumer has
\* received every record and is asleep in the wait of its next call, the
\* other has not called next yet.
C21_Witness ==
    /\ Len(inserted) = LogCapacity
    /\ producer.pc = "idle" /\ producer.result = "NoSpaceLeftInSharedMemory"
    /\ \E c, d \in Consumers :
        /\ received[c] = inserted
        /\ consumer[c].pc = "sleeping" /\ ~consumer[c].woken
        /\ consumer[d].pc = "idle" /\ received[d] = <<>>
        /\ consumer[d].next_sequence = 1

\* The slot, in units of E from head, of the record of sequence i.
SlotOfSequence(i) == alignment_offset(SizeOfE) + i - 1

C23_FirstSlotIsFirstAlignedOffset ==
    layout.kind = "log"
        => /\ layout.first % layout.unit = 0
           /\ layout.first >= HeaderSize
           /\ layout.first - layout.unit < HeaderSize

\* C24: the condvar's counter only grows: every change of it, the one that
\* passes the largest value of its 32 bits included, leaves it greater than
\* it was, and a waiter leaves its wait once a notify_all has followed its
\* sample (checked under SpecWrap).
C24_CounterOnlyGrows ==
    [][/\ (futex' /= futex) => futex' > futex
       /\ \A c \in Consumers :
            (/\ consumer[c].pc = "wait_check"
             /\ consumer'[c] /= consumer[c]
             /\ futex /= consumer[c].expected_value)
            => consumer'[c].pc = "check"]_vars

\* C25: when a signal ends the kernel wait of a next() call, the call is
\* over or on its way out with None (the wait has failed, or next has
\* returned None) and the consumer's cursor, next_sequence and slot pointer,
\* is as it was.
C25_InterruptedNextReturnsNone ==
    [][\A c \in Consumers :
        (/\ consumer[c].pc = "sleeping"
         /\ consumer'[c] /= consumer[c]
         /\ producer' = producer)
        => /\ consumer'[c].pc \in {"interrupted", "idle"}
           /\ consumer'[c].pc = "idle" => consumer'[c].result = None
           /\ consumer'[c].next_sequence = consumer[c].next_sequence
           /\ consumer'[c].end_ptr = consumer[c].end_ptr]_vars

\* C26: the read paths write nothing shared.  In the log a step that changes
\* a slot, the sequence counter or the condvar counter is a step of the
\* producer's insert and changes no consumer; a step of a consumer's next
\* changes only that consumer's cursor and what it received.  In the
\* dictionary a step that changes a slot or the written-count is a put and
\* leaves the client as it was; a step that changes the client's cursor or
\* index changes no slot, nor the written-count, nor the owner.
C26_ReadersWriteNothingShared ==
    [][/\ (slots' /= slots \/ sequence_number' /= sequence_number
            \/ futex' /= futex)
            => /\ producer.pc \in {"write_slot", "write_sequence", "fetch_add"}
               /\ producer' /= producer
               /\ consumer' = consumer /\ received' = received
       /\ \A c \in Consumers :
            (consumer'[c] /= consumer[c] /\ producer' = producer)
            => /\ UNCHANGED <<slots, sequence_number, futex, inserted>>
               /\ \A d \in Consumers \ {c} :
                    consumer'[d] = consumer[d] /\ received'[d] = received[d]
       /\ (dict_slots' /= dict_slots \/ written_records' /= written_records)
            => /\ last_put'.result = "Ok"
               /\ client' = client
       /\ (client' /= client)
            => UNCHANGED <<dict_slots, written_records, owner, put_log>>]_vars

\* Two consumers have each received every record of a full log, and the
\* slots and the counter still hold what the producer wrote.
C26_Witness ==
    /\ Len(inserted) = LogCapacity
    /\ sequence_number = LogCapacity
    /\ \A c \in Consumers : received[c] = inserted /\ consumer[c].pc = "idle"
    /\ \A i \in 1..Len(inserted) : slots[SlotOfSequence(i)] = inserted[i]

\* C27: a step of an open changes neither the size nor the bytes of the
\* object of the path: every offset of the owner's mapping reads after the
\* step the byte it read before.
C27_OpenLeavesTheResourceAsItIs ==
    [][\A p, q \in Procs :
        (/\ proc[q].op = "open" /\ proc'[q] /= proc[q]
         /\ proc[q].pc \in {"truncate", "mmap", "close"}
         /\ proc[p].pc = "mapped" /\ proc[p].owned /\ proc'[p] = proc[p]
         /\ proc[p].map = proc[q].fd)
        => /\ objects'[proc[p].map].len = objects[proc[p].map].len
           /\ \A k \in 0..(proc[p].size - 1) :
                k < objects[proc[p].map].len
                => /\ k < objects'[proc[p].map].len
                   /\ MappedByte(objects', proc', p, k)
                        = MappedByte(objects, proc, p, k)]_vars

\* C28: for every region size and record size LogProducer::new computes its
\* capacity without underflow, and every record an insert writes ends at or
\* before the end of the region.
C28_CapacityNeverUnderflows ==
    layout.kind = "log"
        => /\ ~layout.panicked
           /\ ~layout.wrapped
           /\ layout.written > 0 => layout.last_end <= layout.size

\* C29: for every region size and record size every slot the dictionary
\* owner writes ends at or before the end of the region and begins at or
\* after the end of the written-count header.
C29_DictionarySlotsStayInside ==
    (layout.kind = "dict" /\ layout.written > 0)
        => /\ layout.last_end <= layout.size
           /\ layout.last_end - layout.unit >= SizeOfUsize

\* C30: the bytes read returned are, in order, the first of the bytes write
\* accepted, no call fails, and a read returns 0 only when every accepted
\* byte was returned before.
C30_ByteStreamRoundTrip ==
    /\ io_region.status \in {"none", "open"}
    /\ IsPrefix(io_log.delivered, io_log.accepted)
    /\ io_log.last_read = 0 => io_log.pending = 0

====
